---- MODULE Spec2Model ----
(***************************************************************************)
(* Model of packages/cli/helpers/build.ts: the three build descriptors,    *)
(* the cliLifecyclePlugin (onStart / onEnd staging), the                   *)
(* externalPackageJson resolution override, chmodX and replaceFirstLine.   *)
(* The compiler (esbuild), the build() helper and run() are collaborators  *)
(* whose code is outside this file; their protocol follows spec.md.        *)
(***************************************************************************)
EXTENDS Integers, Sequences, FiniteSets, TLC

VARIABLES
    batch,       \* the descriptors handed to the compiler, in order
    cur,         \* index in batch of the target being built
    pc,          \* position of the pipeline for the current target
    registered,  \* callbacks registered by the plugins' setup for the target
    proc,        \* the auxiliary pre-build process started by onStart
    step,        \* index in OnEndSteps of the onEnd statement being executed
    busy,        \* TRUE while an awaited onEnd call is in flight
    log,         \* history of begin / end / fail events
    outputs,     \* <<outfile, format>> pairs emitted by the compiler
    staged,      \* destinations written by the onEnd copies
    indexMode,   \* st_mode of ./build/index.js (0: no such file)
    indexHead,   \* first line of ./build/index.js
    content,     \* content of ./build/index.js: line texts and "\n" tokens
    content0,    \* the content when replaceFirstLine was called
    mode0,       \* st_mode of the file when chmodX was entered
    chmodCalls,  \* number of fs.chmodSync calls
    result,      \* outcome of build([...])
    errors,      \* number of fatal errors surfaced
    rConfig,     \* descriptor whose compilation issues resolution requests
    requests     \* resolution requests answered so far, with their decisions

vars == <<batch, cur, pc, registered, proc, step, busy, log, outputs, staged,
          indexMode, indexHead, content, content0, mode0, chmodCalls, result,
          errors, rConfig,
          requests>>

pipeVars == <<batch, cur, pc, registered, proc, step, busy, log, outputs,
              staged, result, errors>>
fileVars == <<indexMode, indexHead, content, content0, mode0, chmodCalls>>
resolveVars == <<rConfig, requests>>

(***************************************************************************)
(* Descriptors                                                             *)
(***************************************************************************)
cliBuildConfig ==
    [name |-> "cli", entryPoints |-> <<"src/bin.ts">>, outfile |-> "build/index",
     plugins |-> {"cliLifecyclePlugin", "externalPackageJson"}]

preinstallBuildConfigWithPlugins ==
    [name |-> "preinstall", entryPoints |-> <<"scripts/preinstall.ts">>,
     outfile |-> "preinstall/index",
     plugins |-> {"cliLifecyclePlugin", "externalPackageJson"}]

preinstallBuildConfig ==
    [name |-> "preinstall", entryPoints |-> <<"scripts/preinstall.ts">>,
     outfile |-> "preinstall/index", plugins |-> {}]

migrateBuildConfigOutfileOfCli ==
    [name |-> "migrate", entryPoints |-> <<"src/migrate/index.ts">>,
     outfile |-> "build/index", plugins |-> {"externalPackageJson"}]

migrateBuildConfig ==
    [name |-> "migrate", entryPoints |-> <<"src/migrate/index.ts">>,
     outfile |-> "build/migrate", plugins |-> {"externalPackageJson"}]

BuildConfigs == <<cliBuildConfig, preinstallBuildConfig, migrateBuildConfig>>

\* The format lists the build helper may expand every descriptor into: the
\* commonjs build alone, or the commonjs build followed by the esm build.
FormatLists == {<<"cjs">>, <<"cjs", "esm">>}

RECURSIVE Expand(_, _)
Expand(configs, formats) ==
    IF configs = <<>> THEN <<>>
    ELSE [i \in 1..Len(formats) |->
             [name |-> Head(configs).name,
              entryPoints |-> Head(configs).entryPoints,
              outfile |-> Head(configs).outfile,
              plugins |-> Head(configs).plugins,
              format |-> formats[i]]]
         \o Expand(Tail(configs), formats)

Target == batch[cur]

(***************************************************************************)
(* chmodX                                                                  *)
(***************************************************************************)
\* JavaScript's a | b on non-negative integers.
RECURSIVE BitOr(_, _)
BitOr(a, b) ==
    IF a = 0 THEN b
    ELSE IF b = 0 THEN a
    ELSE (IF a % 2 = 1 \/ b % 2 = 1 THEN 1 ELSE 0) + 2 * BitOr(a \div 2, b \div 2)

\* Number.prototype.toString(8): the octal digits, most significant first.
RECURSIVE ToString8(_)
ToString8(n) ==
    IF n < 8 THEN <<n>> ELSE Append(ToString8(n \div 8), n % 8)

\* String.prototype.slice(-3): the last three characters (all, if fewer).
SliceLast3(s) ==
    IF Len(s) <= 3 THEN s ELSE SubSeq(s, Len(s) - 2, Len(s))

\* The number an octal digit string denotes.
RECURSIVE ParseOctal(_)
ParseOctal(s) ==
    IF s = <<>> THEN 0
    ELSE 8 * ParseOctal(SubSeq(s, 1, Len(s) - 1)) + s[Len(s)]

\* fs.chmodSync(file, str): the twelve permission bits become the number str
\* denotes; the file-type bits of st_mode stay.
chmodSync(mode, str) ==
    (mode - (mode % 4096)) + (ParseOctal(str) % 4096)

NewMode(mode) == BitOr(BitOr(BitOr(mode, 64), 8), 1)

chmodXAlways(mode) ==
    [called |-> TRUE,
     mode |-> chmodSync(mode, SliceLast3(ToString8(NewMode(mode))))]

\* chmodX on a file whose st_mode is mode: whether fs.chmodSync was called and
\* the st_mode afterwards.
chmodX(mode) ==
    LET newMode == NewMode(mode)
        base8 == SliceLast3(ToString8(newMode))
    IN  IF mode = newMode
        THEN [called |-> FALSE, mode |-> mode]
        ELSE [called |-> TRUE, mode |-> chmodSync(mode, base8)]

\* st_mode of a regular file with permission bits p (S_IFREG is 0100000).
RegularFile(p) == 8 * 4096 + p

Octal(a, b, c) == 64 * a + 8 * b + c

\* Modes the compiler or the line replacement may leave on ./build/index.js.
IndexModes == {RegularFile(Octal(6, 4, 4)), RegularFile(Octal(7, 5, 5)),
               RegularFile(Octal(6, 0, 0))}

(***************************************************************************)
(* replaceFirstLine                                                        *)
(***************************************************************************)
\* A file's content is a sequence of tokens: a line terminator "\n" or a
\* piece of line text. The lines a line reader emits for a content: the
\* texts between terminators; a last line needs no terminator.
RECURSIVE LinesAcc(_, _)
LinesAcc(rest, line) ==
    IF rest = <<>> THEN (IF line = <<>> THEN <<>> ELSE <<line>>)
    ELSE IF Head(rest) = "\n" THEN <<line>> \o LinesAcc(Tail(rest), <<>>)
    ELSE LinesAcc(Tail(rest), Append(line, Head(rest)))

Lines(c) == LinesAcc(c, <<>>)

\* What lineReplace writes for the lines from the i-th on: text for line
\* number line (and a terminator when addNewLine), every other line followed
\* by a terminator.
RECURSIVE WriteLines(_, _, _, _, _)
WriteLines(ls, i, line, text, addNewLine) ==
    IF i > Len(ls) THEN <<>>
    ELSE (IF i = line
          THEN text \o (IF addNewLine THEN <<"\n">> ELSE <<>>)
          ELSE ls[i] \o <<"\n">>)
         \o WriteLines(ls, i + 1, line, text, addNewLine)

\* The content lineReplace leaves when it succeeds.
lineReplace(c, line, text, addNewLine) ==
    WriteLines(Lines(c), 1, line, text, addNewLine)

replaceFirstLineAddNewLine(c, line) == lineReplace(c, 1, line, TRUE)

\* The options replaceFirstLine hands to lineReplace.
replaceFirstLine(c, line) == lineReplace(c, 1, line, FALSE)

\* The text onEnd passes: '#!/usr/bin/env node\n'.
ShebangLine == <<"#!/usr/bin/env node", "\n">>

\* The first line of a content, when it is one piece of text.
HeadOf(c) ==
    IF Lines(c) = <<>> THEN "none"
    ELSE IF Len(Lines(c)[1]) = 1 THEN Lines(c)[1][1]
    ELSE "other"

\* Contents the compiler may emit for ./build/index.js.
CompiledContents == {<<"a">>, <<"a", "\n">>, <<"a", "\n", "b", "\n">>}

(***************************************************************************)
(* Plugins' setup                                                          *)
(***************************************************************************)
cliLifecyclePlugin_setupAnyFormat(format) == {"onStart", "onEnd"}

\* The callbacks cliLifecyclePlugin.setup registers for a build of this format.
cliLifecyclePlugin_setup(format) ==
    IF format = "esm" THEN {} ELSE {"onStart", "onEnd"}

\* The callbacks the plugins of descriptor d register.
PluginsSetup(d) ==
    (IF "cliLifecyclePlugin" \in d.plugins
     THEN cliLifecyclePlugin_setup(d.format) ELSE {})
    \cup
    (IF "externalPackageJson" \in d.plugins THEN {"onResolve"} ELSE {})

(***************************************************************************)
(* The statements of the onEnd callback, in program order                  *)
(***************************************************************************)
OnEndStepsChmodFirst ==
    <<"copyStudio", "copyChild", "copyXdgOpen", "copyWasm", "chmodX",
      "replaceFirstLine">>

OnEndSteps ==
    <<"copyStudio", "copyChild", "copyXdgOpen", "copyWasm", "replaceFirstLine",
      "chmodX">>

CopySteps == {"copyStudio", "copyChild", "copyXdgOpen", "copyWasm"}

\* Destination each copy writes.
CopyDest(s) ==
    CASE s = "copyStudio" -> "./build/public"
      [] s = "copyChild" -> "./build/child.js"
      [] s = "copyXdgOpen" -> "./build/xdg-open"
      [] s = "copyWasm" -> "./build/prisma_schema_build_bg.wasm"

CurStep == IF step \in 1..Len(OnEndSteps) THEN OnEndSteps[step] ELSE "none"

Ev(k, op) == [k |-> k, op |-> op, t |-> cur]

(***************************************************************************)
(* externalPackageJson                                                     *)
(***************************************************************************)
\* Paths are sequences of segments; an absolute path starts at the root. A
\* path argument is a record: abs tells whether it starts with a slash.
Abs(segs) == [abs |-> TRUE, segs |-> segs]
Rel(segs) == [abs |-> FALSE, segs |-> segs]

\* Resolution of "." and ".." segments, left to right, from the root.
RECURSIVE Normalize(_, _)
Normalize(done, rest) ==
    IF rest = <<>> THEN done
    ELSE IF Head(rest) = "." THEN Normalize(done, Tail(rest))
    ELSE IF Head(rest) = ".."
         THEN Normalize(IF done = <<>> THEN <<>>
                        ELSE SubSeq(done, 1, Len(done) - 1), Tail(rest))
    ELSE Normalize(Append(done, Head(rest)), Tail(rest))

\* The directory containing this file and the working directory of the build.
Dirname == <<"repo", "packages", "cli", "helpers">>
Cwd == <<"repo", "packages", "cli">>

\* path.resolve(...parts): the parts from the last absolute one on, after the
\* working directory when none is absolute, normalized.
RECURSIVE PathResolveFrom(_, _)
PathResolveFrom(base, parts) ==
    IF parts = <<>> THEN Normalize(<<>>, base)
    ELSE IF Head(parts).abs THEN PathResolveFrom(Head(parts).segs, Tail(parts))
    ELSE PathResolveFrom(base \o Head(parts).segs, Tail(parts))

PathResolve(parts) == PathResolveFrom(Cwd, parts)

\* path.dirname of an absolute path.
PathDirname(p) == IF p = <<>> THEN <<>> ELSE SubSeq(p, 1, Len(p) - 1)

\* Length of the longest common prefix of two absolute paths.
RECURSIVE CommonLen(_, _)
CommonLen(a, b) ==
    IF a = <<>> \/ b = <<>> THEN 0
    ELSE IF Head(a) # Head(b) THEN 0
    ELSE 1 + CommonLen(Tail(a), Tail(b))

\* path.relative(from, to) for absolute paths: one ".." for every segment of
\* from below the common prefix, then the rest of to.
PathRelative(from, to) ==
    LET n == CommonLen(from, to)
    IN  [i \in 1..(Len(from) - n) |-> ".."] \o SubSeq(to, n + 1, Len(to))

\* The outfile as the descriptor spells it, as a relative path.
OutfilePath(outfile) ==
    CASE outfile = "build/index" -> Rel(<<"build", "index">>)
      [] outfile = "preinstall/index" -> Rel(<<"preinstall", "index">>)
      [] outfile = "build/migrate" -> Rel(<<"build", "migrate">>)

externalPackageJson_setupFromOutfile(outfile) ==
    LET pkgJson == PathResolve(<<Abs(Dirname), Rel(<<"..">>), Rel(<<"package.json">>)>>)
    IN  [pkgJson |-> pkgJson,
         pkgJsonRelative |->
             PathRelative(PathResolve(<<OutfilePath(outfile)>>), pkgJson)]

\* What externalPackageJson.setup computes before it registers onResolve.
externalPackageJson_setup(outfile) ==
    LET pkgJson == PathResolve(<<Abs(Dirname), Rel(<<"..">>), Rel(<<"package.json">>)>>)
        outdir == PathDirname(PathResolve(<<OutfilePath(outfile)>>))
    IN  [pkgJson |-> pkgJson, pkgJsonRelative |-> PathRelative(outdir, pkgJson)]

\* The callback returned nothing: default resolution applies.
Undefined == [decided |-> FALSE, external |-> FALSE, path |-> <<>>]

onResolveBareSpecifier(env, args) ==
    IF args.path = Rel(env.pkgJsonRelative)
    THEN [decided |-> TRUE, external |-> TRUE, path |-> env.pkgJsonRelative]
    ELSE Undefined

\* The onResolve callback, env being what setup computed.
onResolve(env, args) ==
    IF PathResolve(<<Abs(args.resolveDir), args.path>>) = env.pkgJson
    THEN [decided |-> TRUE, external |-> TRUE, path |-> env.pkgJsonRelative]
    ELSE Undefined

\* The file names of the model that the filter /package\.json$/ matches.
FilterMatches(p) ==
    p.segs # <<>> /\ p.segs[Len(p.segs)] \in {"package.json", "mypackage.json"}

\* Directories imports are resolved from, and the import paths requested.
ResolveDirs ==
    {<<"repo", "packages", "cli">>,
     <<"repo", "packages", "cli", "src">>,
     <<"repo", "packages", "cli", "src", "bin">>,
     <<"repo", "packages", "cli", "node_modules", "dep">>,
     <<"repo", "packages", "migrate", "src">>}

ImportPaths ==
    {Rel(<<"package.json">>),
     Rel(<<".", "package.json">>),
     Rel(<<"..", "package.json">>),
     Rel(<<"..", "..", "package.json">>),
     Rel(<<"..", "build", "..", "package.json">>),
     Rel(<<"..", "mypackage.json">>),
     Rel(<<".", "index.js">>),
     Abs(<<"repo", "packages", "cli", "package.json">>)}

\* Requests answered during one compilation.
MaxRequests == 2

ConfigNamed(n) ==
    CHOOSE i \in DOMAIN BuildConfigs : BuildConfigs[i].name = n

(***************************************************************************)
(* The build runner: fail-fast, one target after the other                 *)
(***************************************************************************)
\* A rejection reaches build([...]): the run ends in a fatal error.
Fatal(evs) ==
    /\ pc' = "done"
    /\ result' = "fatal"
    /\ errors' = errors + 1
    /\ log' = log \o evs
    /\ busy' = FALSE
    /\ UNCHANGED <<batch, cur, registered, step>>

\* The current target is complete: the next one starts, or the run succeeds.
TargetDone(evs) ==
    /\ log' = log \o evs
    /\ busy' = FALSE
    /\ step' = 0
    /\ UNCHANGED <<batch, errors>>
    /\ IF cur = Len(batch)
       THEN pc' = "done" /\ result' = "success" /\ UNCHANGED <<cur, registered>>
       ELSE pc' = "setup" /\ cur' = cur + 1 /\ registered' = {}
            /\ UNCHANGED result

(***************************************************************************)
(* One target: setup, onStart, compilation, onEnd                          *)
(***************************************************************************)
Setup ==
    /\ pc = "setup"
    /\ registered' = PluginsSetup(Target)
    /\ pc' = "start"
    /\ UNCHANGED <<batch, cur, proc, step, busy, log, outputs, staged, result,
                   errors, fileVars, resolveVars>>

\* build.onStart's callback is invoked and starts the auxiliary process.
OnStartCall ==
    /\ pc = "start"
    /\ "onStart" \in registered
    /\ pc' = "onStart"
    /\ proc' = "running"
    /\ log' = log \o <<Ev("begin", "onStart"), Ev("begin", "run")>>
    /\ UNCHANGED <<batch, cur, registered, step, busy, outputs, staged, result,
                   errors, fileVars, resolveVars>>

\* The auxiliary process exits; run() fulfils on exit code 0 and rejects
\* otherwise.
ProcExit ==
    /\ proc = "running"
    /\ \E code \in {0, 1} :
         /\ proc' = IF code = 0 THEN "exited0" ELSE "exited1"
         /\ log' = Append(log, Ev(IF code = 0 THEN "end" ELSE "fail", "run"))
    /\ UNCHANGED <<batch, cur, pc, registered, step, busy, outputs, staged,
                   result, errors, fileVars, resolveVars>>

OnStartSettleNoAwait ==
    /\ pc = "onStart"
    /\ pc' = "compile"
    /\ log' = Append(log, Ev("end", "onStart"))
    /\ UNCHANGED <<batch, cur, registered, proc, step, busy, outputs, staged,
                   result, errors, fileVars, resolveVars>>

\* await run(...) returns or throws; the callback's promise settles with it.
OnStartSettle ==
    /\ pc = "onStart"
    /\ proc \in {"exited0", "exited1"}
    /\ IF proc = "exited0"
       THEN /\ pc' = "compile"
            /\ log' = Append(log, Ev("end", "onStart"))
            /\ UNCHANGED <<batch, cur, registered, step, busy, result, errors>>
       ELSE Fatal(<<Ev("fail", "onStart")>>)
    /\ UNCHANGED <<proc, outputs, staged, fileVars, resolveVars>>

\* The compiler starts on the target once no onStart callback is pending.
CompileBegin ==
    /\ \/ pc = "compile"
       \/ pc = "start" /\ "onStart" \notin registered
    /\ pc' = "compiling"
    /\ log' = Append(log, Ev("begin", "compile"))
    /\ UNCHANGED <<batch, cur, registered, proc, step, busy, outputs, staged,
                   result, errors, fileVars, resolveVars>>

\* ./build/index.js is the commonjs output of the descriptor with outfile
\* build/index.
WritesIndexJs(d) == d.outfile = "build/index" /\ d.format = "cjs"

\* While compiling, the compiler resolves an import of the target: the
\* onResolve callback decides when one is registered and its filter matches,
\* default resolution otherwise.
CompileResolve ==
    /\ pc = "compiling"
    /\ requests = {}
    /\ \E dir \in ResolveDirs, p \in ImportPaths :
         LET viaOverride == "onResolve" \in registered /\ FilterMatches(p)
         IN  requests' =
                 {[resolveDir |-> dir, path |-> p, override |-> viaOverride,
                   decision |->
                       IF viaOverride
                       THEN onResolve(externalPackageJson_setup(Target.outfile),
                                      [resolveDir |-> dir, path |-> p])
                       ELSE Undefined]}
    /\ UNCHANGED <<pipeVars, fileVars, rConfig>>

\* The compiler ends: with an error, or having written the target's output.
CompileEnd ==
    /\ pc = "compiling"
    /\ \E ok \in BOOLEAN :
         IF ok
         THEN /\ outputs' = outputs \cup {<<Target.outfile, Target.format>>}
              /\ IF WritesIndexJs(Target)
                 THEN /\ indexMode' \in IndexModes
                      /\ content' \in CompiledContents
                      /\ indexHead' = HeadOf(content')
                 ELSE UNCHANGED <<indexMode, indexHead, content>>
              /\ IF "onEnd" \in registered
                 THEN /\ pc' = "onEnd"
                      /\ step' = 1
                      /\ log' = log \o <<Ev("end", "compile"), Ev("begin", "onEnd")>>
                      /\ UNCHANGED <<batch, cur, registered, busy, result, errors>>
                 ELSE TargetDone(<<Ev("end", "compile")>>)
         ELSE /\ Fatal(<<Ev("fail", "compile")>>)
              /\ UNCHANGED <<outputs, indexMode, indexHead, content>>
    /\ requests' = {}
    /\ UNCHANGED <<proc, staged, content0, mode0, chmodCalls, rConfig>>

\* The statement after the current one runs, or the callback returns.
Advance(evs) ==
    IF step = Len(OnEndSteps)
    THEN TargetDone(evs \o <<Ev("end", "onEnd")>>)
    ELSE /\ step' = step + 1
         /\ busy' = FALSE
         /\ log' = log \o evs
         /\ UNCHANGED <<batch, cur, pc, registered, result, errors>>

\* await copy(...) / await fs.promises.copyFile(...): the call is made.
CopyBegin ==
    /\ pc = "onEnd"
    /\ ~busy
    /\ CurStep \in CopySteps
    /\ busy' = TRUE
    /\ log' = Append(log, Ev("begin", CurStep))
    /\ UNCHANGED <<batch, cur, pc, registered, proc, step, outputs, staged,
                   result, errors, fileVars, resolveVars>>

CopyEndRollback ==
    /\ pc = "onEnd"
    /\ busy
    /\ CurStep \in CopySteps
    /\ \E ok \in BOOLEAN :
         IF ok
         THEN /\ staged' = staged \cup {CopyDest(CurStep)}
              /\ Advance(<<Ev("end", CurStep)>>)
         ELSE /\ Fatal(<<Ev("fail", CurStep), Ev("fail", "onEnd")>>)
              /\ staged' = {}
    /\ UNCHANGED <<proc, outputs, fileVars, resolveVars>>

\* The copy settles: the destination is written, or the await throws.
CopyEnd ==
    /\ pc = "onEnd"
    /\ busy
    /\ CurStep \in CopySteps
    /\ \E ok \in BOOLEAN :
         IF ok
         THEN /\ staged' = staged \cup {CopyDest(CurStep)}
              /\ Advance(<<Ev("end", CurStep)>>)
         ELSE /\ Fatal(<<Ev("fail", CurStep), Ev("fail", "onEnd")>>)
              /\ UNCHANGED staged
    /\ UNCHANGED <<proc, outputs, fileVars, resolveVars>>

\* replaceFirstLine('./build/index.js', ...) is called: lineReplace starts.
ReplaceBegin ==
    /\ pc = "onEnd"
    /\ ~busy
    /\ CurStep = "replaceFirstLine"
    /\ busy' = TRUE
    /\ content0' = content
    /\ log' = Append(log, Ev("begin", CurStep))
    /\ UNCHANGED <<batch, cur, pc, registered, proc, step, outputs, staged,
                   result, errors, indexMode, indexHead, content, mode0,
                   chmodCalls, resolveVars>>

ReplaceCallbackRejects ==
    /\ pc = "onEnd"
    /\ busy
    /\ CurStep = "replaceFirstLine"
    /\ \E ok \in BOOLEAN :
         IF ok
         THEN /\ content' = replaceFirstLine(content, ShebangLine)
              /\ indexHead' = HeadOf(content')
              /\ indexMode' \in IndexModes
              /\ Advance(<<Ev("end", CurStep)>>)
         ELSE /\ UNCHANGED <<indexHead, indexMode, content>>
              /\ Fatal(<<Ev("fail", CurStep), Ev("fail", "onEnd")>>)
    /\ UNCHANGED <<proc, outputs, staged, content0, mode0, chmodCalls,
                   resolveVars>>

\* lineReplace calls back, with or without an error; the callback is the
\* promise's resolve, so the await returns in both cases.
ReplaceCallback ==
    /\ pc = "onEnd"
    /\ busy
    /\ CurStep = "replaceFirstLine"
    /\ \E ok \in BOOLEAN :
         IF ok
         THEN /\ content' = replaceFirstLine(content, ShebangLine)
              /\ indexHead' = HeadOf(content')
              /\ indexMode' \in IndexModes
              /\ Advance(<<Ev("end", CurStep)>>)
         ELSE /\ UNCHANGED <<indexHead, indexMode, content>>
              /\ Advance(<<Ev("fail", CurStep)>>)
    /\ UNCHANGED <<proc, outputs, staged, content0, mode0, chmodCalls,
                   resolveVars>>

\* chmodX('./build/index.js'): synchronous; statSync or chmodSync may throw.
ChmodXStep ==
    /\ pc = "onEnd"
    /\ ~busy
    /\ CurStep = "chmodX"
    /\ \E ok \in BOOLEAN :
         IF ok
         THEN /\ mode0' = indexMode
              /\ indexMode' = chmodX(indexMode).mode
              /\ chmodCalls' = chmodCalls + (IF chmodX(indexMode).called THEN 1 ELSE 0)
              /\ Advance(<<Ev("begin", CurStep), Ev("end", CurStep)>>)
         ELSE /\ Fatal(<<Ev("begin", CurStep), Ev("fail", CurStep),
                         Ev("fail", "onEnd")>>)
              /\ UNCHANGED <<mode0, indexMode, chmodCalls>>
    /\ UNCHANGED <<proc, outputs, staged, indexHead, content, content0,
                   resolveVars>>

Init ==
    /\ batch \in {Expand(BuildConfigs, f) : f \in FormatLists}
    /\ cur = 1
    /\ pc = "setup"
    /\ registered = {}
    /\ proc = "none"
    /\ step = 0
    /\ busy = FALSE
    /\ log = <<>>
    /\ outputs = {}
    /\ staged = {}
    /\ indexMode = 0
    /\ indexHead = "none"
    /\ content = <<>>
    /\ content0 = <<>>
    /\ mode0 = 0
    /\ chmodCalls = 0
    /\ result = "pending"
    /\ errors = 0
    /\ rConfig = "none"
    /\ requests = {}

Next ==
    \/ Setup
    \/ OnStartCall
    \/ ProcExit
    \/ OnStartSettle
    \/ CompileBegin
    \/ CompileResolve
    \/ CompileEnd
    \/ CopyBegin
    \/ CopyEnd
    \/ ReplaceBegin
    \/ ReplaceCallback
    \/ ChmodXStep

Spec == Init /\ [][Next]_vars

(***************************************************************************)
(* Properties of the pipeline                                              *)
(***************************************************************************)
HookOps == {"run", "copyStudio", "copyChild", "copyXdgOpen", "copyWasm",
            "replaceFirstLine", "chmodX"}

StepOps == HookOps \ {"run"}

Count(k, op) == Cardinality({i \in DOMAIN log : log[i].k = k /\ log[i].op = op})

Has(k, op, t) == \E i \in DOMAIN log : log[i] = [k |-> k, op |-> op, t |-> t]

\* The batch holds a commonjs and an esm descriptor for the same entry point.
BothFormats ==
    \E i, j \in DOMAIN batch :
        /\ batch[i].entryPoints = batch[j].entryPoints
        /\ batch[i].format = "cjs"
        /\ batch[j].format = "esm"

\* C1: for a target whose format is esm the lifecycle plugin registers neither
\* onStart nor onEnd, for any other format it registers both; in a batch with
\* a commonjs and an esm descriptor for the same entry point the pre-build
\* process and every onEnd step are started at most once, never for the esm
\* target, and exactly once in a run that succeeds.
C1_HooksOnceNotForEsm ==
    /\ (pc # "setup" /\ "cliLifecyclePlugin" \in Target.plugins) =>
          IF Target.format = "esm"
          THEN registered \cap {"onStart", "onEnd"} = {}
          ELSE {"onStart", "onEnd"} \subseteq registered
    /\ \A i \in DOMAIN log :
          log[i].op \in HookOps \cup {"onStart", "onEnd"} =>
              batch[log[i].t].format # "esm"
    /\ BothFormats =>
          \A op \in HookOps :
              /\ Count("begin", op) <= 1
              /\ result = "success" =>
                    /\ Count("begin", op) = 1
                    /\ Count("end", op) + Count("fail", op) = 1

C1_Witness ==
    /\ BothFormats
    /\ result = "success"
    /\ <<"build/index", "esm">> \in outputs
    /\ <<"build/index", "cjs">> \in outputs
    /\ \A op \in HookOps : Count("end", op) = 1

\* C2: for the target carrying the lifecycle hook, the pre-build process and
\* onStart have completed before the target's compilation begins, and the
\* compilation has ended before onEnd or any of its steps begins.
C2_StartCompileEndOrder ==
    \A i \in DOMAIN log :
        LET e == log[i] IN
        /\ (e.k = "begin" /\ e.op = "compile"
              /\ "onStart" \in PluginsSetup(batch[e.t])) =>
              /\ \E j \in 1..(i - 1) :
                    log[j] = [k |-> "end", op |-> "run", t |-> e.t]
              /\ \E j \in 1..(i - 1) :
                    log[j] = [k |-> "end", op |-> "onStart", t |-> e.t]
        /\ (e.k \in {"end", "fail"} /\ e.op = "run") =>
              ~ \E j \in 1..(i - 1) :
                    log[j].op = "compile" /\ log[j].t = e.t
        /\ (e.op \in StepOps \cup {"onEnd"}) =>
              \E j \in 1..(i - 1) :
                    log[j] = [k |-> "end", op |-> "compile", t |-> e.t]

C2_Witness ==
    /\ Has("end", "run", 1)
    /\ Has("end", "compile", 1)
    /\ Has("begin", "copyStudio", 1)

\* C3: once the pre-build process has failed, the target is never compiled,
\* no output file of the target exists, no onEnd step is started, no later
\* target is started, and the run does not succeed: it ends in one fatal
\* error.
C3_OnStartFailureIsFatal ==
    \A t \in DOMAIN batch :
        Has("fail", "run", t) =>
            /\ ~ \E i \in DOMAIN log : log[i].op = "compile" /\ log[i].t = t
            /\ ~ \E i \in DOMAIN log : log[i].op \in StepOps \cup {"onEnd"}
            /\ <<batch[t].outfile, batch[t].format>> \notin outputs
            /\ cur = t
            /\ result # "success"
            /\ pc = "done" => result = "fatal" /\ errors = 1

C3_Witness ==
    /\ Has("fail", "run", 1)
    /\ pc = "done"
    /\ result = "fatal"

\* C4 (as claimed): a failed onEnd step is followed by no later onEnd step and
\* the run ends in a fatal error, never in success.
C4_FailedStepAbortsHook ==
    \A i \in DOMAIN log :
        (log[i].k = "fail" /\ log[i].op \in StepOps) =>
            /\ ~ \E j \in (i + 1)..Len(log) :
                    log[j].k = "begin" /\ log[j].op \in StepOps
            /\ result # "success"
            /\ pc = "done" => result = "fatal"

\* The onEnd steps in the order spec.md lists them.
ExpectedOrder ==
    <<"copyStudio", "copyChild", "copyXdgOpen", "copyWasm", "replaceFirstLine",
      "chmodX">>

StepBegins(t) ==
    SelectSeq(log, LAMBDA e : e.k = "begin" /\ e.op \in StepOps /\ e.t = t)

StepSettles(t) ==
    SelectSeq(log, LAMBDA e : e.k \in {"end", "fail"} /\ e.op \in StepOps /\ e.t = t)

\* C5: the onEnd steps of a target start in the fixed order studio copy,
\* child.js copy, xdg-open copy, wasm copy, first-line rewrite, chmod; a step
\* starts only after the one before it has completed, so at most one step is
\* in progress.
C5_StepsSequentialInOrder ==
    \A t \in DOMAIN batch :
        LET b == StepBegins(t)
            c == StepSettles(t)
        IN  /\ Len(b) <= Len(ExpectedOrder)
            /\ \A n \in 1..Len(b) : b[n].op = ExpectedOrder[n]
            /\ \A n \in 1..Len(c) : c[n].op = ExpectedOrder[n]
            /\ Len(b) - Len(c) \in {0, 1}
            /\ (busy /\ t = cur) => Len(b) - Len(c) = 1
            /\ \A i \in DOMAIN log :
                  (log[i].k = "begin" /\ log[i].op \in StepOps /\ log[i].t = t
                     /\ log[i].op # ExpectedOrder[1]) =>
                      \E j \in 1..(i - 1), n \in 1..(Len(ExpectedOrder) - 1) :
                          /\ log[i].op = ExpectedOrder[n + 1]
                          /\ log[j].op = ExpectedOrder[n]
                          /\ log[j].k \in {"end", "fail"}
                          /\ log[j].t = t

C5_Witness ==
    /\ Len(StepBegins(1)) = 6
    /\ Len(StepSettles(1)) = 6
    /\ StepBegins(1)[6].op = "chmodX"

\* C6 (as claimed): when anything fails (the pre-build process, a compilation,
\* a step of a hook), the run never succeeds, ends in exactly one fatal error,
\* and no other target is started after the failure.
C6_FailFast ==
    \A i \in DOMAIN log :
        (log[i].k = "fail" /\ log[i].op \in HookOps \cup {"compile"}) =>
            /\ result # "success"
            /\ pc = "done" => result = "fatal" /\ errors = 1
            /\ ~ \E j \in (i + 1)..Len(log) :
                    log[j].k = "begin" /\ log[j].t # log[i].t

(***************************************************************************)
(* chmodX on its own: one call on a regular file of any mode               *)
(***************************************************************************)
\* Every st_mode of a regular file: the twelve permission bits are free.
AllModes == {RegularFile(p) : p \in 0..4095}

InitChmod ==
    /\ batch = BuildConfigs
    /\ cur = 1
    /\ pc = "call"
    /\ registered = {}
    /\ proc = "none"
    /\ step = 0
    /\ busy = FALSE
    /\ log = <<>>
    /\ outputs = {}
    /\ staged = {}
    /\ indexMode \in AllModes
    /\ indexHead = "compiled"
    /\ content = <<>>
    /\ content0 = <<>>
    /\ mode0 = indexMode
    /\ chmodCalls = 0
    /\ result = "pending"
    /\ errors = 0
    /\ rConfig = "none"
    /\ requests = {}

\* chmodX(filename) runs to its end, or statSync / chmodSync throws.
ChmodXCall ==
    /\ pc = "call"
    /\ \E ok \in BOOLEAN :
         IF ok
         THEN /\ pc' = "returned"
              /\ indexMode' = chmodX(indexMode).mode
              /\ chmodCalls' = chmodCalls + (IF chmodX(indexMode).called THEN 1 ELSE 0)
         ELSE /\ pc' = "threw"
              /\ UNCHANGED <<indexMode, chmodCalls>>
    /\ UNCHANGED <<batch, cur, registered, proc, step, busy, log, outputs,
                   staged, indexHead, content, content0, mode0, result, errors,
                   resolveVars>>

NextChmod == ChmodXCall

SpecChmod == InitChmod /\ [][NextChmod]_vars

\* Bit b of n.
Bit(n, b) == (n \div (2 ^ b)) % 2

\* The owner, group and other execute bits.
ExecBits == {0, 3, 6}

\* C9 (as claimed): after the permission step the three execute bits are set
\* and every other bit of the mode, the setuid, setgid and sticky bits
\* included, is what it was before the step.
C9_AddsExecKeepsOtherBits ==
    pc = "returned" =>
        \A b \in 0..15 :
            Bit(indexMode, b) = IF b \in ExecBits THEN 1 ELSE Bit(mode0, b)

\* C10: when the file already has the three execute bits, chmodX does not
\* call chmodSync and the mode stays; when one is missing, it calls chmodSync
\* once.
C10_NoWriteWhenAlreadyExecutable ==
    pc = "returned" =>
        IF \A b \in ExecBits : Bit(mode0, b) = 1
        THEN chmodCalls = 0 /\ indexMode = mode0
        ELSE chmodCalls = 1

C10_Witness ==
    /\ pc = "returned"
    /\ mode0 = RegularFile(Octal(7, 5, 5))
    /\ chmodCalls = 0
    /\ indexMode = mode0

InitResolve ==
    /\ batch = BuildConfigs
    /\ cur = 1
    /\ pc = "compiling"
    /\ registered = {}
    /\ proc = "none"
    /\ step = 0
    /\ busy = FALSE
    /\ log = <<>>
    /\ outputs = {}
    /\ staged = {}
    /\ indexMode = 0
    /\ indexHead = "none"
    /\ content = <<>>
    /\ content0 = <<>>
    /\ mode0 = 0
    /\ chmodCalls = 0
    /\ result = "pending"
    /\ errors = 0
    /\ rConfig \in {BuildConfigs[i].name : i \in DOMAIN BuildConfigs}
    /\ requests = {}

\* The compiler resolves an import whose path matches the filter of an
\* onResolve callback registered for the target: the callback decides.
ResolveViaOverride ==
    /\ Cardinality(requests) < MaxRequests
    /\ "externalPackageJson" \in BuildConfigs[ConfigNamed(rConfig)].plugins
    /\ \E dir \in ResolveDirs, p \in ImportPaths :
         /\ FilterMatches(p)
         /\ requests' = requests \cup
               {[resolveDir |-> dir, path |-> p, override |-> TRUE,
                 decision |->
                     onResolve(externalPackageJson_setup(
                                   BuildConfigs[ConfigNamed(rConfig)].outfile),
                               [resolveDir |-> dir, path |-> p])]}
    /\ UNCHANGED <<pipeVars, fileVars, proc, rConfig>>

\* Any other import is left to the compiler's default resolution.
ResolveDefault ==
    /\ Cardinality(requests) < MaxRequests
    /\ \E dir \in ResolveDirs, p \in ImportPaths :
         /\ \/ ~FilterMatches(p)
            \/ "externalPackageJson" \notin BuildConfigs[ConfigNamed(rConfig)].plugins
         /\ requests' = requests \cup
               {[resolveDir |-> dir, path |-> p, override |-> FALSE,
                 decision |-> Undefined]}
    /\ UNCHANGED <<pipeVars, fileVars, proc, rConfig>>

NextResolve ==
    \/ ResolveViaOverride
    \/ ResolveDefault

SpecResolve == InitResolve /\ [][NextResolve]_vars

\* The target's own manifest and the directory the outputs of cli and migrate
\* are written to.
ManifestPath == <<"repo", "packages", "cli", "package.json">>
BuildDir == <<"repo", "packages", "cli", "build">>

\* C7: a request that reaches the override and resolves to the target's own
\* manifest is answered external, with the path from the target's output
\* directory to the manifest (resolving that path from the output directory
\* gives the manifest back); any other request gets no decision.
C7_OverrideDecision ==
    \A r \in requests :
        r.override =>
            IF PathResolve(<<Abs(r.resolveDir), r.path>>) = ManifestPath
            THEN /\ r.decision.decided
                 /\ r.decision.external
                 /\ r.decision.path = <<"..", "package.json">>
                 /\ PathResolve(<<Abs(BuildDir), Rel(r.decision.path)>>) = ManifestPath
            ELSE r.decision = Undefined

C7_Witness ==
    \E r1, r2 \in requests :
        /\ r1.override /\ r1.decision.external
        /\ r1.resolveDir = <<"repo", "packages", "cli", "src">>
        /\ r1.path = Rel(<<"..", "package.json">>)
        /\ r2.override /\ r2.decision = Undefined
        /\ PathResolve(<<Abs(r2.resolveDir), r2.path>>)
              = <<"repo", "packages", "migrate", "package.json">>

\* C8: requests that resolve to the same absolute path get the same decision,
\* whatever specifier they used, and a request for another package's manifest
\* is left to default resolution whatever its specifier.
C8_DecisionByResolvedPath ==
    \A r1, r2 \in requests :
        (r1.override /\ r2.override) =>
            /\ PathResolve(<<Abs(r1.resolveDir), r1.path>>)
                  = PathResolve(<<Abs(r2.resolveDir), r2.path>>)
                  => r1.decision = r2.decision
            /\ PathResolve(<<Abs(r1.resolveDir), r1.path>>) # ManifestPath
                  => ~r1.decision.decided

\* Same specifier, different directories, different decisions; and different
\* specifiers for one absolute path, same decision.
C8_Witness ==
    /\ \E r1, r2 \in requests :
          /\ r1.override /\ r2.override
          /\ r1.path = r2.path
          /\ r1.resolveDir # r2.resolveDir
          /\ r1.decision.external
          /\ ~r2.decision.decided

(***************************************************************************)
(* replaceFirstLine on its own: one call on a file of any content          *)
(***************************************************************************)
\* Longest content, in tokens.
MaxContentLen == 4

Tokens == {"a", "b", "\n"}

AllContents ==
    UNION {[1..n -> Tokens] : n \in 0..MaxContentLen}

InitReplace ==
    /\ batch = BuildConfigs
    /\ cur = 1
    /\ pc = "call"
    /\ registered = {}
    /\ proc = "none"
    /\ step = 0
    /\ busy = FALSE
    /\ log = <<>>
    /\ outputs = {}
    /\ staged = {}
    /\ indexMode = RegularFile(Octal(6, 4, 4))
    /\ content \in AllContents
    /\ indexHead = HeadOf(content)
    /\ content0 = content
    /\ mode0 = 0
    /\ chmodCalls = 0
    /\ result = "pending"
    /\ errors = 0
    /\ rConfig = "none"
    /\ requests = {}

\* replaceFirstLine(filename, line) is called: the promise is created and
\* lineReplace started.
ReplaceFirstLineCall ==
    /\ pc = "call"
    /\ pc' = "pending"
    /\ content0' = content
    /\ log' = Append(log, Ev("begin", "replaceFirstLine"))
    /\ UNCHANGED <<batch, cur, registered, proc, step, busy, outputs, staged,
                   result, errors, indexMode, indexHead, content, mode0,
                   chmodCalls, resolveVars>>

\* lineReplace calls back, having replaced the line or with an error; the
\* callback is the promise's resolve.
LineReplaceCallback ==
    /\ pc = "pending"
    /\ pc' = "resolved"
    /\ \E ok \in BOOLEAN :
         IF ok
         THEN /\ content' = replaceFirstLine(content, ShebangLine)
              /\ indexHead' = HeadOf(content')
              /\ log' = Append(log, Ev("end", "replaceFirstLine"))
         ELSE /\ UNCHANGED <<content, indexHead>>
              /\ log' = Append(log, Ev("fail", "replaceFirstLine"))
    /\ UNCHANGED <<batch, cur, registered, proc, step, busy, outputs, staged,
                   result, errors, indexMode, content0, mode0, chmodCalls,
                   resolveVars>>

NextReplace ==
    \/ ReplaceFirstLineCall
    \/ LineReplaceCallback

SpecReplace == InitReplace /\ [][NextReplace]_vars

\* C11: for a file of one or more lines, after the first-line rewrite the
\* first line is exactly the interpreter directive, the content starts with
\* the replacement text and nothing more (no terminator is added after it),
\* and lines 2..n are the original lines 2..n in their order, the number of
\* lines being the same.
C11_FirstLineReplacedRestKept ==
    (pc = "resolved" /\ Has("end", "replaceFirstLine", 1)
       /\ Lines(content0) # <<>>) =>
        /\ Lines(content)[1] = <<"#!/usr/bin/env node">>
        /\ SubSeq(content, 1, 2) = <<"#!/usr/bin/env node", "\n">>
        /\ Len(Lines(content)) = Len(Lines(content0))
        /\ \A i \in 2..Len(Lines(content0)) :
              Lines(content)[i] = Lines(content0)[i]

C11_Witness ==
    /\ pc = "resolved"
    /\ content0 = <<"a", "\n", "\n", "b">>
    /\ content = <<"#!/usr/bin/env node", "\n", "\n", "b", "\n">>

\* No call of the run has failed.
NoFailure == \A i \in DOMAIN log : log[i].k # "fail"

\* C12: when the run of the descriptors cli, preinstall and migrate is over
\* and no collaborator has failed, the result is success, an output exists
\* for build/index, preinstall/index and build/migrate, and ./build/index.js
\* begins with the interpreter directive and has the owner, group and other
\* execute bits.
C12_EndToEndSuccess ==
    (pc = "done" /\ NoFailure) =>
        /\ result = "success"
        /\ errors = 0
        /\ {<<"build/index", "cjs">>, <<"preinstall/index", "cjs">>,
            <<"build/migrate", "cjs">>} \subseteq outputs
        /\ Lines(content) # <<>>
        /\ Lines(content)[1] = <<"#!/usr/bin/env node">>
        /\ \A b \in ExecBits : Bit(indexMode, b) = 1

C12_Witness ==
    /\ pc = "done"
    /\ NoFailure
    /\ result = "success"
    /\ Len(batch) = 3
    /\ content = <<"#!/usr/bin/env node", "\n", "b", "\n">>
    /\ indexMode = RegularFile(Octal(7, 5, 5))

\* C13: when an onEnd step of a target has failed, the destination of every
\* copy that completed before it is still staged, the compiler's output of
\* the target still exists, and a first line rewritten before the failure is
\* still the rewritten one: nothing is deleted or rolled back.
C13_NoRollback ==
    \A i \in DOMAIN log :
        (log[i].k = "fail" /\ log[i].op \in StepOps) =>
            /\ \A j \in 1..(i - 1) :
                  (log[j].k = "end" /\ log[j].op \in CopySteps) =>
                      CopyDest(log[j].op) \in staged
            /\ <<batch[log[i].t].outfile, batch[log[i].t].format>> \in outputs
            /\ indexMode # 0
            /\ (\E j \in 1..(i - 1) :
                   log[j].k = "end" /\ log[j].op = "replaceFirstLine") =>
                      content = <<"#!/usr/bin/env node", "\n">>
                                    \o SubSeq(content, 3, Len(content))

C13_Witness ==
    /\ Has("fail", "copyWasm", 1)
    /\ pc = "done"
    /\ result = "fatal"
    /\ staged = {"./build/public", "./build/child.js", "./build/xdg-open"}
    /\ <<"build/index", "cjs">> \in outputs

\* The file a descriptor's output is written to: the outfile with the
\* extension of the format.
OutputOf(d) == <<d.outfile, d.format>>

\* C14: no two of the descriptors given to build have the same outfile, no
\* two targets of the batch write the same output file, and no compilation
\* of a run writes a file an earlier compilation of the run wrote.
C14_OutfileUnique ==
    /\ \A i, j \in DOMAIN BuildConfigs :
          i # j => BuildConfigs[i].outfile # BuildConfigs[j].outfile
    /\ \A i, j \in DOMAIN batch :
          i # j => OutputOf(batch[i]) # OutputOf(batch[j])
    /\ \A i, j \in DOMAIN log :
          (i < j /\ log[i].k = "end" /\ log[i].op = "compile"
                 /\ log[j].k = "end" /\ log[j].op = "compile") =>
              OutputOf(batch[log[i].t]) # OutputOf(batch[log[j].t])

C14_Witness ==
    /\ result = "success"
    /\ Len(batch) = 3
    /\ outputs = {<<"build/index", "cjs">>, <<"preinstall/index", "cjs">>,
                  <<"build/migrate", "cjs">>}

\* C15: the pre-build process and the onEnd steps run only for the cli
\* descriptor; onResolve is registered for cli and migrate and not for
\* preinstall, so every import resolved while preinstall is compiled, its
\* package.json imports included, is left to default resolution.
C15_PluginsOnlyWhereConfigured ==
    /\ \A i \in DOMAIN log :
          log[i].op \in HookOps \cup {"onStart", "onEnd"} =>
              batch[log[i].t].name = "cli"
    /\ pc # "setup" =>
          ("onResolve" \in registered <=> Target.name \in {"cli", "migrate"})
    /\ Target.name = "preinstall" =>
          /\ registered = {}
          /\ \A r \in requests : ~r.override /\ r.decision = Undefined

C15_Witness ==
    /\ Target.name = "preinstall"
    /\ pc = "compiling"
    /\ \E r \in requests :
          /\ PathResolve(<<Abs(r.resolveDir), r.path>>) = ManifestPath
          /\ r.decision = Undefined

\* The callback of the rewrite of target t has fired, whatever it reported.
CallbackFired(t) ==
    Has("end", "replaceFirstLine", t) \/ Has("fail", "replaceFirstLine", t)

\* C16: the promise of replaceFirstLine stays pending until lineReplace calls
\* back (onEnd waits, chmodX has not started), and the callback fulfils it
\* whatever it reports: once the callback has fired, onEnd has not been
\* rejected by the rewrite and chmodX is the next statement or has started.
C16_RewriteAlwaysResolves ==
    \A t \in DOMAIN batch :
        Has("begin", "replaceFirstLine", t) =>
            IF CallbackFired(t)
            THEN /\ \/ Has("begin", "chmodX", t)
                    \/ (pc = "onEnd" /\ cur = t /\ ~busy /\ CurStep = "chmodX")
                 /\ Has("fail", "onEnd", t) => Has("fail", "chmodX", t)
            ELSE /\ pc = "onEnd" /\ cur = t /\ busy
                 /\ CurStep = "replaceFirstLine"
                 /\ ~Has("begin", "chmodX", t)
                 /\ result = "pending"

C16_Witness ==
    /\ Has("end", "copyWasm", 1)
    /\ Has("fail", "replaceFirstLine", 1)
    /\ Has("begin", "chmodX", 1)
    /\ Has("end", "onEnd", 1)

(***************************************************************************)
(* The pipeline when every call returns and every continuation is run      *)
(***************************************************************************)
\* Every collaborator call that is in flight eventually returns (ProcExit,
\* CompileEnd, CopyEnd, ReplaceCallback), and the event loop eventually runs
\* every statement that is ready.
Fairness ==
    /\ WF_vars(Setup)
    /\ WF_vars(OnStartCall)
    /\ WF_vars(ProcExit)
    /\ WF_vars(OnStartSettle)
    /\ WF_vars(CompileBegin)
    /\ WF_vars(CompileEnd)
    /\ WF_vars(CopyBegin)
    /\ WF_vars(CopyEnd)
    /\ WF_vars(ReplaceBegin)
    /\ WF_vars(ReplaceCallback)
    /\ WF_vars(ChmodXStep)

FairSpec == Init /\ [][Next]_vars /\ Fairness

\* The auxiliary process, or an awaited onEnd call, has not returned yet.
ProcInFlight == pc = "onStart" /\ proc = "running"
StepInFlight == pc = "onEnd" /\ busy

\* From a state with a call in flight, the only step is that call's return.
OnlyReturnLeaves ==
    /\ ProcInFlight =>
          /\ proc' \in {"exited0", "exited1"}
          /\ pc' = pc
          /\ Len(log') = Len(log) + 1
          /\ log'[Len(log')].op = "run"
    /\ StepInFlight =>
          /\ Len(log') > Len(log)
          /\ log'[Len(log) + 1].op = CurStep
          /\ log'[Len(log) + 1].k \in {"end", "fail"}

\* C17: while the pre-build process or an onEnd call has not returned, the
\* run has no result and the only step possible is the return of that call
\* (there is no timeout or cancellation); and when every call returns, every
\* run ends, in success or in a fatal error.
C17_BlocksUntilReturnThenTerminates ==
    /\ []((ProcInFlight \/ StepInFlight) => (result = "pending" /\ errors = 0))
    /\ [][OnlyReturnLeaves]_vars
    /\ [](pc = "done" <=> result \in {"success", "fatal"})
    /\ <>(pc = "done" /\ result \in {"success", "fatal"})

C17_Witness ==
    /\ StepInFlight
    /\ CurStep = "copyXdgOpen"
    /\ proc = "exited0"
    /\ result = "pending"

====
